---------------------------- MODULE Spec2Model ----------------------------
(***************************************************************************)
(* A model of ambassador/utils.py: the two trigger threads (DelayTrigger,  *)
(* PeriodicTrigger) and the two secret readers (KubeSecretReader,          *)
(* SplitConfigChecker.secret_reader) with the files they write.            *)
(*                                                                         *)
(* The three subsystems share no state.  Each has its own variables, its   *)
(* own next-state relation and its own specification; all start from       *)
(* InitAll.                                                                *)
(***************************************************************************)
EXTENDS Integers, Sequences, FiniteSets, TLC

VARIABLES
    \* ---- DelayTrigger -------------------------------------------------
    dtPc,        \* where the worker thread is in run()
    dtBuf,       \* bytes queued in the socketpair, sent and not yet received
    dtTimer,     \* time left of the recv() the worker is blocked in (armed)
    prodPc,      \* per producer: outside trigger() or inside sendall()
    sinceLast,   \* history: time since the last byte was sent, saturating
    newBurst,    \* history: a burst has begun that no invocation has served
    unserved,    \* history: a byte was sent that no invocation has followed
    trigSinceWait, \* history: a byte was sent since the last recv() began
    armedFresh,  \* history: the byte that armed the worker came after that
    \* ---- PeriodicTrigger ----------------------------------------------
    ptPc,        \* where the worker thread is in run()
    ptNow,       \* time since construction
    ptWake,      \* the time the current sleep() ends
    ptCount,     \* history: callback invocations so far
    ptCalls,     \* history: trigger() calls so far
    \* ---- secret readers -----------------------------------------------
    reader,      \* which reader the calls go to: "kube" or "split"
    v1,          \* KubeSecretReader.v1: TRUE once a client is held
    dirExists,   \* the secret's directory exists
    crtFile,     \* <dir>/tls.crt: absent, or its text
    keyFile,     \* <dir>/tls.key: absent, or its text
    call         \* per call in flight: its position and its locals

dvars == <<dtPc, dtBuf, dtTimer, prodPc, sinceLast, newBurst, unserved,
           trigSinceWait, armedFresh>>
pvars == <<ptPc, ptNow, ptWake, ptCount, ptCalls>>
svars == <<reader, v1, dirExists, crtFile, keyFile, call>>
vars  == <<dvars, pvars, svars>>

Min(a, b) == IF a < b THEN a ELSE b
Max(a, b) == IF a > b THEN a ELSE b

(***************************************************************************)
(*                             DelayTrigger                                *)
(***************************************************************************)

\* DelayTrigger.__init__'s default timeout.
Timeout == 5

\* The size handed to both recv() calls.
RecvMax == 128

\* What the socketpair holds before sendall() blocks (the kernel's buffer).
SockBufCap == 130

\* The number of threads that call trigger().
NumProducers == 2

Producers == 1..NumProducers

DInit ==
    /\ dtPc = "idle"
    /\ dtBuf = 0
    /\ dtTimer = 0
    /\ prodPc = [p \in Producers |-> "out"]
    /\ sinceLast = Timeout
    /\ newBurst = FALSE
    /\ unserved = FALSE
    /\ trigSinceWait = FALSE
    /\ armedFresh = FALSE

\* What one recv(RecvMax) leaves queued.
AfterRecv(buf) == buf - Min(buf, RecvMax)

\* A producer enters trigger().
TriggerCall(p) ==
    /\ UNCHANGED <<pvars, svars>>
    /\ prodPc[p] = "out"
    /\ prodPc' = [prodPc EXCEPT ![p] = "in"]
    /\ UNCHANGED <<dtPc, dtBuf, dtTimer, sinceLast, newBurst, unserved,
                   trigSinceWait, armedFresh>>

\* sendall(b'X') on the blocking socket: it completes once the buffer has
\* room, and trigger() returns.
TriggerSend(p) ==
    /\ UNCHANGED <<pvars, svars>>
    /\ prodPc[p] = "in"
    /\ dtBuf < SockBufCap
    /\ dtBuf' = dtBuf + 1
    /\ prodPc' = [prodPc EXCEPT ![p] = "out"]
    /\ newBurst' = (newBurst \/ sinceLast >= Timeout)
    /\ sinceLast' = 0
    /\ unserved' = TRUE
    /\ trigSinceWait' = TRUE
    /\ UNCHANGED <<dtPc, dtTimer, armedFresh>>

\* The outer loop: settimeout(None), the blocking recv() returns, then
\* settimeout(self.timeout) and the worker enters the timed recv().
RecvFirst ==
    /\ UNCHANGED <<pvars, svars>>
    /\ dtPc = "idle"
    /\ dtBuf > 0
    /\ dtBuf' = AfterRecv(dtBuf)
    /\ dtPc' = "armed"
    /\ dtTimer' = Timeout
    /\ armedFresh' = trigSinceWait
    /\ trigSinceWait' = FALSE
    /\ UNCHANGED <<prodPc, sinceLast, newBurst, unserved>>

\* The inner loop: the timed recv() returns data and is called again with
\* a fresh timeout.
RecvMore ==
    /\ UNCHANGED <<pvars, svars>>
    /\ dtPc = "armed"
    /\ dtBuf > 0
    /\ dtBuf' = AfterRecv(dtBuf)
    /\ dtTimer' = Timeout
    /\ trigSinceWait' = FALSE
    /\ UNCHANGED <<dtPc, prodPc, sinceLast, newBurst, unserved, armedFresh>>

\* The timed recv() can raise socket.timeout.
TimedOut(pc, buf, timer) == pc = "armed" /\ buf = 0 /\ timer = 0

\* socket.timeout is caught and self.onfired() is called.
Fire ==
    /\ UNCHANGED <<pvars, svars>>
    /\ TimedOut(dtPc, dtBuf, dtTimer)
    /\ dtPc' = "callback"
    /\ newBurst' = FALSE
    /\ unserved' = FALSE
    /\ UNCHANGED <<dtBuf, dtTimer, prodPc, sinceLast, trigSinceWait,
                   armedFresh>>

\* Where run() is after onfired() returns: break, and the outer loop again.
AfterReturn == "idle"

\* Where run() is after onfired() raises: nothing catches it, run() ends.
AfterRaise == "dead"

CallbackReturn ==
    /\ UNCHANGED <<pvars, svars>>
    /\ dtPc = "callback"
    /\ dtPc' = AfterReturn
    /\ UNCHANGED <<dtBuf, dtTimer, prodPc, sinceLast, newBurst, unserved,
                   trigSinceWait, armedFresh>>

CallbackRaise ==
    /\ UNCHANGED <<pvars, svars>>
    /\ dtPc = "callback"
    /\ dtPc' = AfterRaise
    /\ UNCHANGED <<dtBuf, dtTimer, prodPc, sinceLast, newBurst, unserved,
                   trigSinceWait, armedFresh>>

\* One unit of time passes.
DTick ==
    /\ UNCHANGED <<pvars, svars>>
    /\ dtTimer' = IF dtPc = "armed" THEN Max(dtTimer - 1, 0) ELSE dtTimer
    /\ sinceLast' = Min(sinceLast + 1, Timeout)
    /\ UNCHANGED <<dtPc, dtBuf, prodPc, newBurst, unserved, trigSinceWait,
                   armedFresh>>

Worker == RecvFirst \/ RecvMore \/ Fire \/ CallbackReturn \/ CallbackRaise

Producer == \E p \in Producers : TriggerSend(p)

DNext ==
    \/ \E p \in Producers : TriggerCall(p)
    \/ \E p \in Producers : TriggerSend(p)
    \/ RecvFirst
    \/ RecvMore
    \/ Fire
    \/ CallbackReturn
    \/ CallbackRaise
    \/ DTick

(***************************************************************************)
(*                            PeriodicTrigger                              *)
(***************************************************************************)

\* PeriodicTrigger.__init__'s default period.
Period == 5

\* The longest observation window, and the most trigger() calls in it.
MaxWindow == 20
MaxCalls == 2

\* A sleep that ends one unit early.
SleepEndEarly(now) == now + Period - 1

\* time.sleep(self.period) entered at `now` ends at:
SleepEnd(now) == now + Period

\* The thread is started in __init__ and goes to sleep at once.
PInit ==
    /\ ptPc = "sleeping"
    /\ ptNow = 0
    /\ ptWake = SleepEnd(0)
    /\ ptCount = 0
    /\ ptCalls = 0

\* sleep() returns and self.onfired() is called.
PWake ==
    /\ UNCHANGED <<dvars, svars>>
    /\ ptPc = "sleeping"
    /\ ptNow >= ptWake
    /\ ptPc' = "callback"
    /\ ptCount' = ptCount + 1
    /\ UNCHANGED <<ptNow, ptWake, ptCalls>>

\* onfired() returns: the loop sleeps again.
PCallbackReturn ==
    /\ UNCHANGED <<dvars, svars>>
    /\ ptPc = "callback"
    /\ ptPc' = "sleeping"
    /\ ptWake' = SleepEnd(ptNow)
    /\ UNCHANGED <<ptNow, ptCount, ptCalls>>

\* onfired() raises: nothing catches it, run() ends.
PCallbackRaise ==
    /\ UNCHANGED <<dvars, svars>>
    /\ ptPc = "callback"
    /\ ptPc' = "dead"
    /\ UNCHANGED <<ptNow, ptWake, ptCount, ptCalls>>

\* trigger(): pass.
PTrigger ==
    /\ UNCHANGED <<dvars, svars>>
    /\ ptCalls < MaxCalls
    /\ ptCalls' = ptCalls + 1
    /\ UNCHANGED <<ptPc, ptNow, ptWake, ptCount>>

\* One unit of time passes.  A sleep that is over ends before time moves
\* on (the thread is woken on time); a callback takes as long as it takes.
PTick ==
    /\ UNCHANGED <<dvars, svars>>
    /\ ptNow < MaxWindow
    /\ ~(ptPc = "sleeping" /\ ptNow >= ptWake)
    /\ ptNow' = ptNow + 1
    /\ UNCHANGED <<ptPc, ptWake, ptCount, ptCalls>>

PNext ==
    \/ PWake
    \/ PCallbackReturn
    \/ PCallbackRaise
    \/ PTrigger
    \/ PTick

(***************************************************************************)
(*               KubeSecretReader and SplitConfigChecker                   *)
(*                                                                         *)
(* One secret identity (name, namespace, roots) is followed: every call    *)
(* reads the same source and writes the same directory.                    *)
(***************************************************************************)

\* An Optional value: Python's None, or a value.
None == [some |-> FALSE, val |-> <<>>]
Some(v) == [some |-> TRUE, val |-> v]

\* Python's truth of an Optional str or bytes: `if cert:`.
Truthy(x) == x.some /\ x.val # <<>>

\* Base64 text is a sequence of symbols: 0..63 an alphabet character by
\* its value, B64Pad the "=", B64Other a character outside the alphabet.
B64Pad == 64
B64Other == 65

TxtEmpty == <<>>                  \* ""
TxtC == <<16, 48, 64, 64>>        \* "Qw==", the base64 of "C"
TxtCER == <<16, 52, 21, 18>>      \* "Q0VS", the base64 of "CER"
TxtK == <<18, 48, 64, 64>>        \* "Sw==", the base64 of "K"
TxtBadPad == <<16, 48>>           \* "Qw": its padding is missing
TxtNotUtf8 == <<63, 48, 64, 64>>  \* "/w==", the base64 of the byte 0xFF
TxtNewline == <<B64Other>>        \* "\n": true as a str, decodes to b""

\* binascii.a2b_base64, as the library decodes: characters outside the
\* alphabet are skipped, a pad that completes a quad ends the input, and a
\* quad left open at the end is binascii.Error.
RECURSIVE A2BFrom(_, _, _, _, _, _)
A2BFrom(s, i, quad, left, pads, out) ==
    IF i > Len(s)
    THEN IF quad # 0 THEN [err |-> TRUE, val |-> <<>>]
                     ELSE [err |-> FALSE, val |-> out]
    ELSE LET ch == s[i] IN
         IF ch = B64Pad
         THEN IF quad >= 2 /\ quad + pads + 1 >= 4
              THEN [err |-> FALSE, val |-> out]
              ELSE A2BFrom(s, i + 1, quad, left,
                           IF quad >= 2 THEN pads + 1 ELSE pads, out)
         ELSE IF ch > 63
         THEN A2BFrom(s, i + 1, quad, left, pads, out)
         ELSE CASE quad = 0 -> A2BFrom(s, i + 1, 1, ch, 0, out)
                [] quad = 1 -> A2BFrom(s, i + 1, 2, ch % 16, 0,
                                 Append(out, (left * 4 + ch \div 16) % 256))
                [] quad = 2 -> A2BFrom(s, i + 1, 3, ch % 4, 0,
                                 Append(out, (left * 16 + ch \div 4) % 256))
                [] OTHER    -> A2BFrom(s, i + 1, 0, 0, 0,
                                 Append(out, (left * 64 + ch) % 256))

a2b_base64(s) == A2BFrom(s, 1, 0, 0, 0, <<>>)

\* bytes.decode("utf-8"): the text as code points, or UnicodeDecodeError.
\* One- and two-byte forms; the texts above need no longer form.
RECURSIVE Utf8From(_, _, _)
Utf8From(b, i, out) ==
    IF i > Len(b) THEN [err |-> FALSE, val |-> out]
    ELSE IF b[i] < 128 THEN Utf8From(b, i + 1, Append(out, b[i]))
    ELSE IF /\ b[i] >= 194 /\ b[i] <= 223 /\ i < Len(b)
            /\ b[i + 1] >= 128 /\ b[i + 1] <= 191
    THEN Utf8From(b, i + 2, Append(out, (b[i] - 192) * 64 + b[i + 1] - 128))
    ELSE [err |-> TRUE, val |-> <<>>]

Utf8Decode(b) == Utf8From(b, 1, <<>>)

\* The `data` mapping of a Secret: its tls.crt, its tls.key, and whether
\* it holds any other field.
EmptyMap == [crt |-> None, key |-> None, other |-> FALSE]

\* Python's truth of the mapping: it has an entry.
MapTruthy(m) == m.crt.some \/ m.key.some \/ m.other

CrtTexts == {None, Some(TxtEmpty), Some(TxtC), Some(TxtCER), Some(TxtBadPad),
             Some(TxtNotUtf8), Some(TxtNewline)}
KeyTexts == {None, Some(TxtK), Some(TxtBadPad)}
DataMaps ==
    {[crt |-> c, key |-> k, other |-> FALSE] : c \in CrtTexts, k \in KeyTexts}
    \cup {[crt |-> None, key |-> None, other |-> TRUE]}

\* The local cert_data: None, the V1Secret object, or a data mapping.
CdNone == [tag |-> "none", map |-> EmptyMap]
CdObj == [tag |-> "obj", map |-> EmptyMap]
CdMap(m) == [tag |-> "map", map |-> m]

\* Python's truth of cert_data.
CertDataTruthy(cd) == cd.tag = "obj" \/ (cd.tag = "map" /\ MapTruthy(cd.map))

\* `x = m.get(field); if x: x = binascii.a2b_base64(x)`
DecodeField(x) ==
    IF Truthy(x)
    THEN LET d == a2b_base64(x.val) IN [err |-> d.err, val |-> Some(d.val)]
    ELSE [err |-> FALSE, val |-> x]

\* tls.crt and tls.key are taken from the mapping and decoded, the
\* certificate first; binascii.Error is not caught.
Extract(m) ==
    LET dc == DecodeField(m.crt)
        dk == DecodeField(m.key)
    IN  IF dc.err
        THEN [exc |-> "binascii.Error", cert |-> None, key |-> None]
        ELSE IF dk.err
        THEN [exc |-> "binascii.Error", cert |-> dc.val, key |-> None]
        ELSE [exc |-> "", cert |-> dc.val, key |-> dk.val]

NoExtract == [exc |-> "", cert |-> None, key |-> None]

\* What read_namespaced_secret can answer.
KubeAnswers ==
    {[kind |-> "NotFound", data |-> EmptyMap],
     [kind |-> "ApiError", data |-> EmptyMap]}
    \cup {[kind |-> "Secret", data |-> m] : m \in DataMaps \cup {EmptyMap}}

\* KubeSecretReader.__call__ up to the point where it touches the disk.
KubeRead(haveV1, ans) ==
    LET fetched == haveV1 /\ ans.kind = "Secret"
        useData == fetched /\ MapTruthy(ans.data)
        ex      == IF useData THEN Extract(ans.data) ELSE NoExtract
    IN  [exc       |-> ex.exc,
         cert_data |-> IF useData THEN "map"
                       ELSE IF fetched THEN "obj" ELSE "none",
         cert      |-> ex.cert,
         key       |-> ex.key,
         failed    |-> ~fetched \/ ex.exc # "",
         multi     |-> FALSE]

\* The most documents in a snapshot file.
MaxDocs == 2

\* A document of the snapshot file: its kind, whether its metadata is
\* non-empty, whether it has a `data` entry, and that mapping.
DocNotSecret == [kind |-> "Pod", metadata |-> TRUE, hasData |-> FALSE,
                 data |-> EmptyMap]
DocNoMetadata == [kind |-> "Secret", metadata |-> FALSE, hasData |-> FALSE,
                  data |-> EmptyMap]
Docs ==
    {DocNotSecret, DocNoMetadata,
     [kind |-> "Secret", metadata |-> TRUE, hasData |-> FALSE,
      data |-> EmptyMap]}
    \cup {[kind |-> "Secret", metadata |-> TRUE, hasData |-> TRUE, data |-> m] :
            m \in DataMaps \cup {EmptyMap}}

DocSeqs == UNION {[1..n -> Docs] : n \in 0..MaxDocs}

\* The snapshot file: missing, not parsable, or its documents.
SnapshotFiles ==
    {[state |-> "missing", docs |-> <<>>], [state |-> "unparsable", docs |-> <<>>]}
    \cup {[state |-> "parsed", docs |-> d] : d \in DocSeqs}

\* The loop over the documents: errors counted, the first true `data`
\* mapping kept.
RECURSIVE ScanFrom(_, _, _, _)
ScanFrom(docs, i, errors, cd) ==
    IF i > Len(docs) THEN [errors |-> errors, cert_data |-> cd]
    ELSE LET obj == docs[i] IN
         IF obj.kind # "Secret" THEN ScanFrom(docs, i + 1, errors + 1, cd)
         ELSE IF ~obj.metadata THEN ScanFrom(docs, i + 1, errors + 1, cd)
         ELSE IF obj.hasData
         THEN IF CertDataTruthy(cd)
              THEN ScanFrom(docs, i + 1, errors + 1, cd)
              ELSE ScanFrom(docs, i + 1, errors, CdMap(obj.data))
         ELSE ScanFrom(docs, i + 1, errors, cd)

\* The documents of kind Secret with metadata and a `data` entry.
DataDocs(docs) ==
    {i \in 1..Len(docs) :
        docs[i].kind = "Secret" /\ docs[i].metadata /\ docs[i].hasData}

\* SplitConfigChecker.secret_reader up to the point where it touches the
\* disk.
SplitRead(file) ==
    LET s  == ScanFrom(file.docs, 1, 0, CdNone)
        ex == IF s.errors = 0 /\ CertDataTruthy(s.cert_data)
              THEN Extract(s.cert_data.map) ELSE NoExtract
    IN  [exc       |-> ex.exc,
         cert_data |-> s.cert_data.tag,
         cert      |-> ex.cert,
         key       |-> ex.key,
         failed    |-> file.state # "parsed" \/ s.errors > 0 \/ ex.exc # "",
         multi     |-> Cardinality(DataDocs(file.docs)) >= 2]

\* Every way the first part of a call can end.  Of cert_data a call keeps
\* what it is (None, the V1Secret object, a mapping): its entries are in
\* cert and key, decoded.
KubeOutcomes == {KubeRead(TRUE, a) : a \in KubeAnswers}
KubeOutcomesNoV1 == {KubeRead(FALSE, a) : a \in KubeAnswers}
SplitOutcomes == {SplitRead(f) : f \in SnapshotFiles}

\* The two calls that may run at once.
Calls == {1, 2}
Other(c) == 3 - c

Resting == {"start", "done", "raised"}
InFlight(c) == call[c].pc \notin Resting

NewCall ==
    [pc |-> "start", exc |-> "", cert_data |-> "none", cert |-> None,
     key |-> None, cert_path |-> FALSE, key_path |-> FALSE,
     failed |-> FALSE, multi |-> FALSE, wrote |-> FALSE, conc |-> FALSE]

SInit ==
    /\ reader \in {"kube", "split"}
    /\ v1 = FALSE
    /\ dirExists = FALSE
    /\ crtFile = None
    /\ keyFile = None
    /\ call = [c \in Calls |-> NewCall]

\* The SavedSecret a call returns, and SavedSecret.__bool__.
SavedSecret(c) ==
    [cert_path |-> call[c].cert_path, key_path |-> call[c].key_path,
     cert_data |-> call[c].cert_data]
SavedBool(ss) == ss.cert_path /\ ss.cert_data # "none"

\* A call begins and runs to the `if cert:`; without a certificate it
\* returns at once.
Begun(c, o) ==
    [call EXCEPT
        ![c] = [NewCall EXCEPT
                  !.pc = IF o.exc # "" THEN "raised"
                         ELSE IF Truthy(o.cert) THEN "mkdir" ELSE "done",
                  !.exc = o.exc, !.cert_data = o.cert_data,
                  !.cert = o.cert, !.key = o.key,
                  !.failed = o.failed, !.multi = o.multi,
                  !.conc = InFlight(Other(c))],
        ![Other(c)].conc = @ \/ InFlight(Other(c))]

KubeBegin(c) ==
    /\ UNCHANGED <<dvars, pvars>>
    /\ reader = "kube"
    /\ call[c].pc \in Resting
    /\ \E have \in (IF v1 THEN {TRUE} ELSE BOOLEAN) :
         /\ v1' = have
         /\ \E o \in (IF have THEN KubeOutcomes ELSE KubeOutcomesNoV1) :
              call' = Begun(c, o)
    /\ UNCHANGED <<reader, dirExists, crtFile, keyFile>>

SplitBegin(c) ==
    /\ UNCHANGED <<dvars, pvars>>
    /\ reader = "split"
    /\ call[c].pc \in Resting
    /\ \E o \in SplitOutcomes : call' = Begun(c, o)
    /\ UNCHANGED <<reader, v1, dirExists, crtFile, keyFile>>

\* os.makedirs(secret_dir) on a directory that exists or not.
Makedirs(exists) == IF exists THEN "FileExistsError" ELSE "ok"

\* No except clause: the error goes on.
NoCatch(r) == r

\* try: ... except FileExistsError: pass
CatchFileExists(r) == IF r = "FileExistsError" THEN "ok" ELSE r

Mkdir(c) ==
    /\ UNCHANGED <<dvars, pvars>>
    /\ call[c].pc = "mkdir"
    /\ LET r == CatchFileExists(Makedirs(dirExists)) IN
         call' = [call EXCEPT
                    ![c].pc = IF r = "ok" THEN "opencrt" ELSE "raised",
                    ![c].exc = IF r = "ok" THEN "" ELSE r,
                    ![c].wrote = @ \/ ~dirExists]
    /\ dirExists' = TRUE
    /\ UNCHANGED <<reader, v1, crtFile, keyFile>>

\* open(cert_path, "w"): the file is created or truncated.
OpenCrt(c) ==
    /\ UNCHANGED <<dvars, pvars>>
    /\ call[c].pc = "opencrt"
    /\ crtFile' = Some(<<>>)
    /\ call' = [call EXCEPT ![c].pc = "writecrt", ![c].cert_path = TRUE,
                            ![c].wrote = TRUE]
    /\ UNCHANGED <<reader, v1, dirExists, keyFile>>

\* .write(cert.decode("utf-8")), and the file is closed.
WriteCrt(c) ==
    /\ UNCHANGED <<dvars, pvars>>
    /\ call[c].pc = "writecrt"
    /\ LET d == Utf8Decode(call[c].cert.val) IN
         IF d.err
         THEN /\ call' = [call EXCEPT ![c].pc = "raised",
                                      ![c].exc = "UnicodeDecodeError"]
              /\ UNCHANGED crtFile
         ELSE /\ crtFile' = Some(d.val)
              /\ call' = [call EXCEPT
                            ![c].pc = IF Truthy(call[c].key) THEN "openkey"
                                      ELSE "done"]
    /\ UNCHANGED <<reader, v1, dirExists, keyFile>>

\* open(key_path, "w")
OpenKey(c) ==
    /\ UNCHANGED <<dvars, pvars>>
    /\ call[c].pc = "openkey"
    /\ keyFile' = Some(<<>>)
    /\ call' = [call EXCEPT ![c].pc = "writekey", ![c].key_path = TRUE]
    /\ UNCHANGED <<reader, v1, dirExists, crtFile>>

\* .write(key.decode("utf-8")), the file is closed, and the call returns.
WriteKey(c) ==
    /\ UNCHANGED <<dvars, pvars>>
    /\ call[c].pc = "writekey"
    /\ LET d == Utf8Decode(call[c].key.val) IN
         IF d.err
         THEN /\ call' = [call EXCEPT ![c].pc = "raised",
                                      ![c].exc = "UnicodeDecodeError"]
              /\ UNCHANGED keyFile
         ELSE /\ keyFile' = Some(d.val)
              /\ call' = [call EXCEPT ![c].pc = "done"]
    /\ UNCHANGED <<reader, v1, dirExists, crtFile>>

SNext ==
    \/ \E c \in Calls : KubeBegin(c)
    \/ \E c \in Calls : SplitBegin(c)
    \/ \E c \in Calls : Mkdir(c)
    \/ \E c \in Calls : OpenCrt(c)
    \/ \E c \in Calls : WriteCrt(c)
    \/ \E c \in Calls : OpenKey(c)
    \/ \E c \in Calls : WriteKey(c)

(***************************************************************************)
(*                            Specifications                               *)
(***************************************************************************)

InitAll == DInit /\ PInit /\ SInit

\* The worker thread runs whenever it can, a callback ends, a sendall()
\* with room in the buffer completes, time passes.
DelaySpec ==
    /\ InitAll
    /\ [][DNext]_vars
    /\ WF_vars(Worker)
    /\ WF_vars(Producer)
    /\ WF_vars(DTick)

PeriodicSpec == InitAll /\ [][PNext]_vars

SecretSpec == InitAll /\ [][SNext]_vars

(***************************************************************************)
(*                         DelayTrigger: claims                            *)
(***************************************************************************)

\* The step in which the worker invokes the callback.
Invokes == dtPc = "armed" /\ dtPc' = "callback"

\* The step in which a trigger() call hands its byte over.
Sends == dtBuf' = dtBuf + 1

\* C1 (safety half): an invocation serves a burst no invocation has served,
\* and comes no earlier than Timeout after the last trigger() call.
C1_Safety == [][Invokes => (newBurst /\ sinceLast >= Timeout)]_vars

\* C1: every burst of trigger() calls, each less than Timeout after the
\* one before, gets exactly one callback invocation, and that invocation
\* is no earlier than Timeout after the last call of the burst.
C1_OncePerBurst ==
    /\ [][Invokes => (newBurst /\ sinceLast >= Timeout)]_vars
    /\ (([]<><<Sends>>_vars) \/ ([]<>(~newBurst)))

\* C4: trigger() never blocks its caller.  Stated for the worker running a
\* callback: a producer inside trigger() can then still complete its send.
C4_TriggerNeverBlocks ==
    \A p \in Producers :
        (prodPc[p] = "in" /\ dtPc = "callback") => dtBuf < SockBufCap

\* C9 (safety half): the callback is not invoked again unless a trigger()
\* call was received after the previous invocation began its wait.
C9_Safety == [][Invokes => armedFresh]_vars

\* C9: no signal is lost and none invented: every trigger() call is
\* followed by an invocation once the calls stop, and no invocation comes
\* without a call received after the previous invocation's wait began.
C9_NoLostNoSpurious ==
    /\ [][Invokes => armedFresh]_vars
    /\ (([]<><<Sends>>_vars) \/ ([]<>(~unserved)))

\* C10: the worker has no terminal state: whenever a callback invocation
\* ends, by returning or by raising, the worker is back in IDLE.
C10_BackToIdle ==
    [][(dtPc = "callback" /\ dtPc' # "callback") => dtPc' = "idle"]_vars

(***************************************************************************)
(*                        PeriodicTrigger: claims                          *)
(***************************************************************************)

\* C8 as stated: after a window of ptNow the callback has been invoked
\* floor(ptNow / Period) times, give or take one.
C8_FloorGiveOrTakeOne ==
    /\ ptCount >= ptNow \div Period - 1
    /\ ptCount <= ptNow \div Period + 1

\* C8 as amended: after a window of ptNow the callback has been invoked at
\* most floor(ptNow / Period) times, and a trigger() call changes nothing
\* of the instance, so not that count either.
C8_AtMostFloor ==
    /\ [](ptCount <= ptNow \div Period)
    /\ [][ptCalls' # ptCalls => UNCHANGED <<ptPc, ptNow, ptWake, ptCount>>]_vars

\* Several invocations, trigger() called, and the count already two short
\* of floor(ptNow / Period).
C8_Witness ==
    /\ ptCount >= 2
    /\ ptCalls >= 1
    /\ ptCount < ptNow \div Period - 1

(***************************************************************************)
(*                         Secret readers: claims                          *)
(***************************************************************************)

\* C2: no exception escapes a reader, and a call on a failure path
\* returns a SavedSecret without a certificate path.
C2_NeverRaises ==
    \A c \in Calls :
        /\ call[c].pc # "raised"
        /\ (call[c].pc = "done" /\ call[c].failed) => ~call[c].cert_path

\* C3: a call that got a certificate and no key and ran alone, whatever
\* calls came before it, returns a true SavedSecret with the certificate path set and
\* the key path absent, and no tls.key exists when it returns.
C3_CertOnlyLeavesNoKey ==
    [][\A c \in Calls :
         (/\ call[c].pc # "done"
          /\ call'[c].pc = "done"
          /\ ~call'[c].conc
          /\ Truthy(call'[c].cert)
          /\ ~Truthy(call'[c].key))
         => (/\ SavedBool(SavedSecret(c))'
             /\ call'[c].cert_path
             /\ ~call'[c].key_path
             /\ keyFile' = None)]_vars

\* C5: a snapshot file with two or more Secret documents that carry a
\* `data` mapping gets nothing written and a false SavedSecret.
C5_MultipleSecretsRejected ==
    \A c \in Calls :
        call[c].multi =>
            /\ ~call[c].wrote
            /\ ~call[c].cert_path
            /\ call[c].pc = "done" => ~SavedBool(SavedSecret(c))

\* C6: a call that got no certificate writes no file, creates no
\* directory and returns a false SavedSecret with both paths absent; no
\* returned SavedSecret has a key path without a certificate path.
C6_NoCertNoFiles ==
    \A c \in Calls :
        /\ (call[c].pc # "start" /\ ~Truthy(call[c].cert)) =>
              /\ call[c].pc = "done"
              /\ ~call[c].wrote
              /\ ~call[c].cert_path
              /\ ~call[c].key_path
              /\ ~SavedBool(SavedSecret(c))
        /\ (call[c].pc = "done" /\ call[c].key_path) => call[c].cert_path

\* The call got a certificate and a key, both text.
ValidPair(c) ==
    /\ Truthy(call[c].cert)
    /\ Truthy(call[c].key)
    /\ ~Utf8Decode(call[c].cert.val).err
    /\ ~Utf8Decode(call[c].key.val).err

SamePayloadDone ==
    /\ \A c \in Calls : call[c].pc = "done" /\ ValidPair(c)
    /\ call[1].cert = call[2].cert
    /\ call[1].key = call[2].key

\* C7: two calls for the same secret with the same certificate and key,
\* however their steps interleave, both return: no FileExistsError (or
\* other exception) escapes, and once both have returned tls.crt and
\* tls.key hold the decoded certificate and key.
C7_ConcurrentSameSecret ==
    /\ \A c \in Calls : call[c].exc # "FileExistsError"
    /\ \A c \in Calls : ValidPair(c) => call[c].pc # "raised"
    /\ SamePayloadDone =>
          /\ crtFile = Some(Utf8Decode(call[1].cert.val).val)
          /\ keyFile = Some(Utf8Decode(call[1].key.val).val)

\* Both calls have returned, with the same certificate and key, and each
\* ran while the other was in flight.
C7_Witness ==
    /\ SamePayloadDone
    /\ call[1].conc
    /\ call[2].conc

=============================================================================
